---- MODULE Spec2Model ----
(***************************************************************************)
(* Model of opytimizer's Flower Pollination Algorithm optimizer            *)
(* (opytimizer/optimizers/fpa.py) and of the hyperparameter building of    *)
(* the FPA and PSO optimizers (opytimizer/optimizers/pso.py).              *)
(*                                                                         *)
(* Real numbers are modelled on an integer grid:                           *)
(*   - positions and fitness values are integers;                          *)
(*   - hyperparameters and uniform draws r are counted in tenths           *)
(*     (beta = 15 is 1.5, eta = 2 is 0.2, p = 8 is 0.8, r = 9 is 0.9);     *)
(*   - the uniform draw epsilon is counted in halves (1 is 0.5);           *)
(*   - a random draw is enumerated only when the product it enters is      *)
(*     exactly representable on the grid, so no rounding is ever modelled. *)
(***************************************************************************)
EXTENDS Integers, Sequences, FiniteSets, TLC

\* ------------------------------------------------------------------ bounds
NAgents == 2        \* size of space.agents
MaxIter == 2        \* largest space.n_iterations explored
MaxBuilds == 2      \* largest number of _build calls on one optimizer

\* --------------------------------------------------------------- constants
DefaultBeta == 15   \* self.beta = 1.5
DefaultEta == 2     \* self.eta = 0.2
DefaultP == 8       \* self.p = 0.8
DefaultW == 0       \* self.w = 0
FitMax == 1000      \* fitness of an agent that was never evaluated

\* len(agent_position): the number of decision variables of the space
NDim == 1

Agents == 1..NAgents
Dims == 1..NDim

\* space.lb and space.ub, one bound pair per decision variable
lb == [d \in Dims |-> -1]
ub == [d \in Dims |-> 1]

Positions == {x \in [Dims -> -1..1] : \A d \in Dims : lb[d] <= x[d] /\ x[d] <= ub[d]}

\* outcomes of r.generate_uniform_random_number(0, 1) for the switch, in tenths
Uniform01 == {8, 9}
\* outcomes of r.generate_uniform_random_number(0, 1) for epsilon, in halves
Epsilons == {0, 1}
\* outcomes of one component of r.generate_levy_distribution
LevySteps == {-5, 0, 5}

\* the objective functions function.pointer may be
Functions == {"sphere", "shifted"}

RECURSIVE SumTo(_, _)
SumTo(f, n) == IF n = 0 THEN 0 ELSE f[n] + SumTo(f, n - 1)

\* function.pointer(position)
pointer(fname, x) ==
    IF fname = "sphere"
    THEN SumTo([d \in Dims |-> x[d] * x[d]], NDim)
    ELSE SumTo([d \in Dims |-> (x[d] - 1) * (x[d] - 1)], NDim)

\* ------------------------------------------------- hyperparameter mappings
\* A hyperparams argument is None or a dict; a dict is a function from a
\* set of keys to values.
NoneHyper == [none |-> TRUE, map |-> <<>>]
Dict(m) == [none |-> FALSE, map |-> m]

FPAValues == [beta |-> {17, 20}, eta |-> {4}, p |-> {5}, foo |-> {1}, w |-> {7}]

DictsOver(keys) ==
    UNION {[ks -> UNION {FPAValues[k] : k \in ks}] : ks \in SUBSET keys}

WellValued(m) == \A k \in DOMAIN m : m[k] \in FPAValues[k]

FPAHypers == {NoneHyper} \cup
    {Dict(m) : m \in {f \in DictsOver({"beta", "eta", "p", "foo"}) : WellValued(f)}}
PSOHypers == {NoneHyper} \cup
    {Dict(m) : m \in {f \in DictsOver({"w", "foo"}) : WellValued(f)}}

\* Python truth value of a hyperparams argument: None and {} are false
Truthy(h) == ~h.none /\ DOMAIN h.map # {}
\* 'key' in hyperparams, evaluated only under "if hyperparams:"
HasKey(h, key) == Truthy(h) /\ key \in DOMAIN h.map

VARIABLES
    \* FPA optimizer
    beta, eta, p, built, hyperparams,
    \* PSO optimizer
    w, pso_built, pso_hyperparams,
    \* history of the _build calls
    nBuild, prevFPA, nPsoBuild, prevW,
    \* Space
    position, fit, bestRef, bestObj, n_iterations, fname,
    \* position of FPA.run
    pc, t, idx,
    \* history of the run
    snap, lastUpd, unclamped, nEval, nUpdate, nClamp, replaced, bestFrom

optVars == <<beta, eta, p, built, hyperparams, w, pso_built, pso_hyperparams,
             nBuild, prevFPA, nPsoBuild, prevW>>
spaceVars == <<position, fit, bestRef, bestObj, n_iterations, fname>>
runVars == <<pc, t, idx, snap, lastUpd, unclamped, nEval, nUpdate, nClamp,
             replaced, bestFrom>>
vars == <<optVars, spaceVars, runVars>>


\* ------------------------------------------------------------ FPA._build
\* _build with the assignments of lines 112-116 lost
BuildValueKept(h, key, current) == current

\* value of one tunable after _build(h): overridden when its key is in h
BuildValue(h, key, current) == IF HasKey(h, key) THEN h.map[key] ELSE current

\* FPA._build(hyperparams)
FPABuild(h) ==
    /\ nBuild < MaxBuilds
    /\ hyperparams' = h
    /\ beta' = BuildValue(h, "beta", beta)
    /\ eta' = BuildValue(h, "eta", eta)
    /\ p' = BuildValue(h, "p", p)
    /\ built' = TRUE
    /\ nBuild' = nBuild + 1
    /\ prevFPA' = [beta |-> beta, eta |-> eta, p |-> p]
    /\ UNCHANGED <<w, pso_built, pso_hyperparams, nPsoBuild, prevW>>
    /\ UNCHANGED <<spaceVars, runVars>>

\* PSO._build(hyperparams)
PSOBuild(h) ==
    /\ nPsoBuild < MaxBuilds
    /\ pso_hyperparams' = h
    /\ w' = BuildValue(h, "w", w)
    /\ pso_built' = TRUE
    /\ nPsoBuild' = nPsoBuild + 1
    /\ prevW' = w
    /\ UNCHANGED <<beta, eta, p, built, hyperparams, nBuild, prevFPA>>
    /\ UNCHANGED <<spaceVars, runVars>>

NoUpdate ==
    [agent |-> 0, branch |-> "none", r |-> 0, old |-> [d \in Dims |-> 0],
     best |-> [d \in Dims |-> 0], step |-> [d \in Dims |-> 0], epsilon |-> 0,
     j |-> 0, k |-> 0, pj |-> [d \in Dims |-> 0], pk |-> [d \in Dims |-> 0]]

\* a Space before run: agents inside the bounds, nobody evaluated yet
FreshSpace ==
    /\ position \in [Agents -> Positions]
    /\ fit = [a \in Agents |-> FitMax]
    /\ bestRef = 0
    /\ bestObj = [position |-> [d \in Dims |-> 0], fit |-> FitMax]
    /\ n_iterations \in 0..MaxIter
    /\ fname \in Functions

RunNotStarted ==
    /\ t = 0
    /\ idx = 1
    /\ snap = position
    /\ lastUpd = NoUpdate
    /\ unclamped = position
    /\ nEval = 0
    /\ nUpdate = 0
    /\ nClamp = 0
    /\ replaced = FALSE
    /\ bestFrom = 0

\* FPA.__init__ and PSO.__init__ up to their call of self._build
InitBuild ==
    /\ beta = DefaultBeta
    /\ eta = DefaultEta
    /\ p = DefaultP
    /\ built = FALSE
    /\ hyperparams = NoneHyper
    /\ w = DefaultW
    /\ pso_built = FALSE
    /\ pso_hyperparams = NoneHyper
    /\ nBuild = 0
    /\ prevFPA = [beta |-> DefaultBeta, eta |-> DefaultEta, p |-> DefaultP]
    /\ nPsoBuild = 0
    /\ prevW = DefaultW
    /\ position = [a \in Agents |-> [d \in Dims |-> 0]]
    /\ fit = [a \in Agents |-> FitMax]
    /\ bestRef = 0
    /\ bestObj = [position |-> [d \in Dims |-> 0], fit |-> FitMax]
    /\ n_iterations = 0
    /\ fname = "sphere"
    /\ pc = "unbuilt"
    /\ RunNotStarted

NextBuild ==
    \/ \E h \in FPAHypers : FPABuild(h)
    \/ \E h \in PSOHypers : PSOBuild(h)

BuildSpec == InitBuild /\ [][NextBuild]_vars


\* ------------------------------------------------------------- the Space
\* space.best_agent is a reference: 0 is the Agent object the space owns
\* (bestObj), a > 0 is the live agent a of space.agents.
best_agent ==
    IF bestRef = 0 THEN bestObj
    ELSE [position |-> position[bestRef], fit |-> fit[bestRef]]

\* list(map(operator.add, x, y))
Add(x, y) == [d \in Dims |-> x[d] + y[d]]

\* the products of the update rule are exact on the integer grid
ExactLevy(a, b, step) == \A d \in Dims : (eta * step[d] * (b[d] - a[d])) % 10 = 0
ExactLocal(f0, f1, epsilon) == \A d \in Dims : (epsilon * (f0[d] - f1[d])) % 2 = 0

\* FPA._levy_flight, step being the draw of generate_levy_distribution
levy_flight(agent_position, best_position, step) ==
    [d \in Dims |->
        agent_position[d]
        + (eta * step[d] * (best_position[d] - agent_position[d])) \div 10]

\* FPA._local_pollination, flowers being the positions of the two sampled
\* agents and epsilon the uniform draw
local_pollination(flower0, flower1, agent_position, epsilon) ==
    [d \in Dims |->
        agent_position[d] + (epsilon * (flower0[d] - flower1[d])) \div 2]

\* _local_pollination reading a copy of the population taken before the sweep
FlowerPositionSnapshot(a) == snap[a]

\* flowers[n].position as _local_pollination reads it: the agent's position
\* in the list that _update is rewriting
FlowerPosition(a) == position[a]

\* _update assigning the pollination result itself
NewPositionAssigned(i, pollination) == pollination

\* the body of the loop of FPA._update for agent i, either branch
NewPosition(i, pollination) == Add(position[i], pollination)

\* run without its call of check_bound_limits
AfterUpdateUnclamped == "evaluate"

\* run looping once too often
AfterEvaluateOnceMore(done) == IF done <= n_iterations THEN "update" ELSE "done"

\* where FPA.run goes after the update sweep, after the clamp and after an
\* evaluation pass that ends with done iterations behind it
AfterUpdate == "clamp"
AfterClamp == "evaluate"
AfterEvaluate(done) == IF done < n_iterations THEN "update" ELSE "done"

SweepStep(i) ==
    /\ idx' = IF i = NAgents THEN 1 ELSE i + 1
    /\ pc' = IF i = NAgents THEN AfterUpdate ELSE "update"
    /\ nUpdate' = IF i = NAgents THEN nUpdate + 1 ELSE nUpdate
    /\ UNCHANGED <<optVars, fit, bestRef, bestObj, n_iterations, fname>>
    /\ UNCHANGED <<t, snap, unclamped, nEval, nClamp, replaced, bestFrom>>

\* FPA._update, agent idx, branch r > self.p
GlobalPollination(r) ==
    /\ pc = "update"
    /\ r > p
    /\ \E step \in [Dims -> LevySteps] :
        /\ ExactLevy(position[idx], best_agent.position, step)
        /\ position' = [position EXCEPT ![idx] =
              NewPosition(idx, levy_flight(position[idx], best_agent.position, step))]
        /\ lastUpd' = [NoUpdate EXCEPT !.agent = idx, !.branch = "global", !.r = r,
                          !.old = position[idx], !.best = best_agent.position,
                          !.step = step]
    /\ SweepStep(idx)

\* FPA._update, agent idx, branch r <= self.p
LocalPollination(r) ==
    /\ pc = "update"
    /\ ~(r > p)
    /\ \E epsilon \in Epsilons : \E j \in Agents : \E k \in Agents \ {j} :
        /\ ExactLocal(FlowerPosition(j), FlowerPosition(k), epsilon)
        /\ position' = [position EXCEPT ![idx] =
              NewPosition(idx, local_pollination(FlowerPosition(j), FlowerPosition(k),
                                                 position[idx], epsilon))]
        /\ lastUpd' = [NoUpdate EXCEPT !.agent = idx, !.branch = "local", !.r = r,
                          !.old = position[idx], !.epsilon = epsilon,
                          !.j = j, !.k = k,
                          !.pj = FlowerPosition(j), !.pk = FlowerPosition(k)]
    /\ SweepStep(idx)

UpdateAgent == \E r \in Uniform01 : GlobalPollination(r) \/ LocalPollination(r)

\* one component after c.check_bound_limits
Saturate(x, low, high) == IF x < low THEN low ELSE IF x > high THEN high ELSE x

\* c.check_bound_limits(space.agents, space.lb, space.ub)
check_bound_limits ==
    /\ pc = "clamp"
    /\ position' = [a \in Agents |->
                      [d \in Dims |-> Saturate(position[a][d], lb[d], ub[d])]]
    /\ unclamped' = position
    /\ lastUpd' = NoUpdate
    /\ nClamp' = nClamp + 1
    /\ pc' = AfterClamp
    /\ UNCHANGED <<optVars, fit, bestRef, bestObj, n_iterations, fname>>
    /\ UNCHANGED <<t, idx, snap, nEval, nUpdate, replaced, bestFrom>>

\* agent.fit after lines 166-168: overwritten only by a lower value
AgentFit(value, current) == IF value < current THEN value ELSE current

\* line 171 without its test, with the test reversed, with a non-strict test
IsBetterAlways(agent_fit, best_fit) == TRUE
IsBetterReversed(agent_fit, best_fit) == agent_fit > best_fit
IsBetterOrEqual(agent_fit, best_fit) == agent_fit <= best_fit

\* the test of line 171
IsBetter(agent_fit, best_fit) == agent_fit < best_fit

\* space.best_agent = agent, without the deep copy
AliasCopy(i, agent_fit) == [ref |-> i, obj |-> bestObj]

\* lines 173-176: what space.best_agent refers to after the copy
DeepCopy(i, agent_fit) ==
    [ref |-> 0, obj |-> [position |-> position[i], fit |-> agent_fit]]

\* FPA._evaluate, agent idx
EvaluateAgent ==
    /\ pc \in {"init_eval", "evaluate"}
    /\ LET i == idx
           agent_fit == AgentFit(pointer(fname, position[i]), fit[i])
           best_fit == IF bestRef = i THEN agent_fit ELSE best_agent.fit
           copy == DeepCopy(i, agent_fit)
           done == IF pc = "init_eval" THEN 0 ELSE t + 1
       IN  /\ fit' = [fit EXCEPT ![i] = agent_fit]
           /\ IF IsBetter(agent_fit, best_fit)
              THEN /\ bestRef' = copy.ref
                   /\ bestObj' = copy.obj
                   /\ replaced' = TRUE
                   /\ bestFrom' = i
              ELSE UNCHANGED <<bestRef, bestObj, replaced, bestFrom>>
           /\ IF i = NAgents
              THEN /\ idx' = 1
                   /\ nEval' = nEval + 1
                   /\ t' = done
                   /\ pc' = AfterEvaluate(done)
              ELSE /\ idx' = i + 1
                   /\ UNCHANGED <<nEval, t, pc>>
    /\ snap' = position
    /\ UNCHANGED <<optVars, position, n_iterations, fname>>
    /\ UNCHANGED <<lastUpd, unclamped, nUpdate, nClamp>>

\* the hyperparams the optimizer of a run is constructed with
RunHypers == {NoneHyper, Dict([eta |-> 4, p |-> 5])}

\* FPA(hyperparams) and PSO(None) constructed, a fresh Space, run entered
Init ==
    /\ \E h \in RunHypers :
        /\ hyperparams = h
        /\ beta = BuildValue(h, "beta", DefaultBeta)
        /\ eta = BuildValue(h, "eta", DefaultEta)
        /\ p = BuildValue(h, "p", DefaultP)
    /\ built = TRUE
    /\ nBuild = 1
    /\ prevFPA = [beta |-> DefaultBeta, eta |-> DefaultEta, p |-> DefaultP]
    /\ w = DefaultW
    /\ pso_built = TRUE
    /\ pso_hyperparams = NoneHyper
    /\ nPsoBuild = 1
    /\ prevW = DefaultW
    /\ FreshSpace
    /\ pc = "init_eval"
    /\ RunNotStarted

Next ==
    \/ EvaluateAgent
    \/ UpdateAgent
    \/ check_bound_limits

Spec == Init /\ [][Next]_vars


\* ================================================================ properties

\* an evaluation pass has finished and no update has been made since
PassComplete ==
    /\ nEval > 0
    /\ \/ pc = "done"
       \/ pc = "update" /\ lastUpd.agent = 0

InBounds(x) == \A d \in Dims : lb[d] <= x[d] /\ x[d] <= ub[d]

\* C1: after the clamp step of every iteration and throughout the evaluation
\* that follows it, every position component of every agent lies within
\* [lb[i], ub[i]] inclusive, whatever the update step produced.
C1_BoundsAfterClamp ==
    pc = "evaluate" => \A a \in Agents : InBounds(position[a])

\* the clamp has just brought back an agent that the update had put at least
\* two units outside its bounds
C1_Witness ==
    /\ pc = "evaluate"
    /\ \E a \in Agents : \E d \in Dims :
          \/ unclamped[a][d] >= ub[d] + 2
          \/ unclamped[a][d] <= lb[d] - 2

\* C2: space.best_agent.fit is non-increasing: no step of a run, evaluation
\* or other, ever raises it.
C2_BestFitNonIncreasing ==
    [][best_agent.fit' <= best_agent.fit]_vars

\* a run of at least two evaluation passes has ended although an agent was
\* last evaluated at a position worse than the recorded best
C2_Witness ==
    /\ pc = "done"
    /\ nEval >= 2
    /\ \E a \in Agents : pointer(fname, position[a]) > best_agent.fit

\* C3: after every evaluation pass, space.best_agent.fit <= agent.fit for
\* every agent of space.agents.
C3_BestNotAboveAgents ==
    PassComplete => \A a \in Agents : best_agent.fit <= fit[a]

\* after a pass that followed an update, the best is strictly below an agent
C3_Witness ==
    /\ PassComplete
    /\ nEval >= 2
    /\ \E a \in Agents : best_agent.fit < fit[a]

\* C4: after each evaluation pass, every agent's fit is the objective
\* function's value at the agent's current position.
C4_FitIsValueAtPosition ==
    PassComplete => \A a \in Agents : fit[a] = pointer(fname, position[a])

\* C5: the update and clamp steps leave every agent's fit and
\* space.best_agent, position and fit, unchanged.
C5_UpdateClampFrame ==
    [][(pc \in {"update", "clamp"}) => (fit' = fit /\ best_agent' = best_agent)]_vars

\* the agent that was copied into best_agent has been moved by an update and
\* a clamp while best_agent still holds the position it was copied at
C5_Witness ==
    /\ pc = "evaluate"
    /\ idx = 1
    /\ bestFrom # 0
    /\ position[bestFrom] # snap[bestFrom]
    /\ best_agent.position = snap[bestFrom]

\* C6: run makes one initial evaluation pass and then n_iterations rounds of
\* update, clamp, evaluate in that order, and then stops; a step is possible
\* exactly until then; with n_iterations = 0 no update or clamp is made.
C6_RunOrder ==
    /\ pc \in {"init_eval", "update", "clamp", "evaluate", "done"}
    /\ pc = "init_eval" => nEval = 0 /\ nUpdate = 0 /\ nClamp = 0
    /\ pc = "update" =>
          nEval = t + 1 /\ nUpdate = t /\ nClamp = t /\ t < n_iterations
    /\ pc = "clamp" =>
          nEval = t + 1 /\ nUpdate = t + 1 /\ nClamp = t /\ t < n_iterations
    /\ pc = "evaluate" =>
          nEval = t + 1 /\ nUpdate = t + 1 /\ nClamp = t + 1 /\ t < n_iterations
    /\ pc = "done" =>
          nEval = n_iterations + 1 /\ nUpdate = n_iterations /\ nClamp = n_iterations
    /\ n_iterations = 0 => nUpdate = 0 /\ nClamp = 0 /\ lastUpd.agent = 0
    /\ pc # "done" <=> ENABLED Next

\* a run of at least two iterations has ended
C6_Witness ==
    /\ pc = "done"
    /\ n_iterations >= 2
    /\ nUpdate = n_iterations

C8_ReadsSnapshot ==
    lastUpd.branch = "local" =>
        /\ lastUpd.pj = snap[lastUpd.j]
        /\ lastUpd.pk = snap[lastUpd.k]

\* the position of agent a as an update of agent i finds it in the live list
LiveAt(i, a) == IF a < i THEN position[a] ELSE snap[a]

\* C8 amended: the flower positions a local pollination reads are the live
\* ones: the position already rewritten in this sweep for a flower that
\* precedes the updated agent, the start-of-iteration position otherwise.
C8_ReadsLive ==
    lastUpd.branch = "local" =>
        /\ lastUpd.pj = LiveAt(lastUpd.agent, lastUpd.j)
        /\ lastUpd.pk = LiveAt(lastUpd.agent, lastUpd.k)

\* a local pollination has read a flower at a position rewritten earlier in
\* the same sweep
C8_Witness ==
    /\ lastUpd.branch = "local"
    /\ lastUpd.j < lastUpd.agent
    /\ lastUpd.pj # snap[lastUpd.j]
    /\ lastUpd.epsilon # 0

\* C9: the position an update assigns is twice the old position plus delta,
\* delta being eta * step * (best_agent.position - old) when r > p and
\* epsilon * (j.position - k.position), j # k, when r <= p.
C9_DoubleAdd ==
    lastUpd.agent # 0 =>
        LET u == lastUpd
            new == position[u.agent]
        IN  /\ u.old = snap[u.agent]
            /\ u.branch = "global" <=> u.r > p
            /\ u.branch = "local" <=> u.r <= p
            /\ u.branch = "global" =>
                  /\ u.best = best_agent.position
                  /\ \A d \in Dims :
                        10 * (new[d] - 2 * u.old[d])
                            = eta * u.step[d] * (u.best[d] - u.old[d])
            /\ u.branch = "local" =>
                  /\ u.j # u.k
                  /\ \A d \in Dims :
                        2 * (new[d] - 2 * u.old[d])
                            = u.epsilon * (u.pj[d] - u.pk[d])

\* a local pollination that sampled the updated agent itself and moved it by
\* a delta other than zero from a position other than zero
C9_Witness ==
    /\ lastUpd.branch = "local"
    /\ lastUpd.k = lastUpd.agent
    /\ lastUpd.epsilon # 0
    /\ lastUpd.pj # lastUpd.pk
    /\ \E d \in Dims : lastUpd.old[d] # 0

\* C10: once best_agent has been replaced, after every evaluation pass
\* best_agent.fit is the objective function's value at best_agent.position.
C10_BestFitMatchesPosition ==
    PassComplete /\ replaced =>
        best_agent.fit = pointer(fname, best_agent.position)

\* after a pass that followed an update, an agent carries a fit that is not
\* the value at its position, and that fit equals the recorded best
C10_Witness ==
    /\ PassComplete
    /\ replaced
    /\ nEval >= 2
    /\ \E a \in Agents :
          /\ fit[a] # pointer(fname, position[a])
          /\ fit[a] = best_agent.fit

====
